---------------------------- MODULE Spec2Model ----------------------------
(***************************************************************************)
(* backtest_scanner (services/scanners/backtest_service.py) as a state     *)
(* machine.                                                                *)
(*                                                                         *)
(* Units.  A date is a calendar day number.  A price (open, low, close,    *)
(* atr_14) is an integer number of thousandths of the currency unit, so    *)
(* that round(x, 2) is a real conversion (to a multiple of 10).  gain_pct  *)
(* is an integer number of hundredths of a percent.  target is kept in     *)
(* hundredths of a price unit (buy_price * 1.05 = buy_price * 105 / 100).  *)
(* Arithmetic is exact: binary floating point error is not modelled.       *)
(***************************************************************************)
EXTENDS Integers, Sequences, FiniteSets

\* ------------------------------------------------------------------ bounds
\* Longest signal file (rows of the CSV).
MaxSignals == 2
\* Longest feed of allocate (signals of all weeks together).
MaxFeed == 3

\* ------------------------------------------------------- program constants
\* date(?, '-10 day'): the swing window, in calendar days.
SwingDays == 10
\* target = buy_price * 1.05, as hundredths.
TargetPct == 105
\* SQL NULL / None / NaN, as pd.isna sees it.
NULL == -9999

\* --------------------------------------------------------------- input sets
\* Calendar days on which a bar may exist: one old day, then two consecutive
\* days more than SwingDays later (a long gap in the series).
Dates == {1, SwingDays + 2, SwingDays + 3}
Symbols == {1, 2}
\* A daily bar's prices.  open may be NULL; low <= open, close.
BarShapes ==
    { [open |-> NULL, low |->  990, close |-> 1020],
      [open |-> 1004, low |->  990, close |-> 1020],
      [open |-> 1000, low |->  950, close |->  960],
      [open |-> 1004, low |-> 1000, close |-> 1104] }
\* An indicator row's atr_14 and is_final.
IndShapes ==
    { [atr_14 |->   20, is_final |-> TRUE],
      [atr_14 |->   20, is_final |-> FALSE],
      [atr_14 |-> NULL, is_final |-> TRUE],
      [atr_14 |-> -110, is_final |-> TRUE],
      [atr_14 |->    0, is_final |-> TRUE] }
\* The rows of symbol 2, the same in every run.
OtherBars ==
    { [symbol_id |-> 2, date |-> SwingDays + 2, open |-> 1004, low |-> 990, close |-> 1020],
      [symbol_id |-> 2, date |-> SwingDays + 3, open |-> 1004, low |-> 1000, close |-> 1104] }
OtherInds ==
    { [symbol_id |-> 2, date |-> SwingDays + 2, atr_14 |-> 20, is_final |-> TRUE] }

VARIABLES
    equity_price_data,   \* table: rows of timeframe '1d'
    equity_indicators,   \* table: rows of timeframe '1d'
    df,                  \* the signal file, rows in file order
    columns,             \* the required columns the signal file has
    db_up,               \* whether the data source can be opened and queried
    pc,                  \* position in backtest_scanner
    conn,                \* "none", "open" or "closed"
    i,                   \* index of the row of df being processed
    trades,              \* the trades list
    buy_date, buy_price, atr, swing_low, stop_loss, target,
    forward_df, k,       \* forward bars, index of the bar being visited
    exit_price, exit_date, exit_reason,
    result,              \* what the call returned
    logged,              \* the failures passed to log, oldest first
    summary              \* the summary statistics, once computed

db == <<equity_price_data, equity_indicators, df, columns, db_up>>
entry == <<buy_date, buy_price>>
levels == <<atr, swing_low, stop_loss, target>>
walk == <<forward_df, k, exit_price, exit_date, exit_reason>>
report == <<logged, summary>>

\* The state of allocate, the weekly cohort allocator.
VARIABLES
    feed,                \* the trades of the signals, in the order of the feed
    apc,                 \* position of allocate
    pending,             \* the week_start of the cohorts still to come
    cohorts,             \* the processed cohorts, oldest first
    capital              \* the capital carried to the next cohort

alloc == <<feed, apc, pending, cohorts, capital>>
run == <<db, pc, conn, i, trades, entry, levels, walk, result, report>>

\* The state of get_base_data and of get_base_data_weekly.
VARIABLES
    indicator_rows,      \* table equity_indicators: rows of '1d', '1wk', '1mo'
    bfn,                 \* which of the two functions is called
    bpc,                 \* position of the call
    bconn,               \* its connection: none, open, closed
    bcloses,             \* how many times close_db_connection was called
    df_daily,            \* the frame get_base_data builds
    df_weekly,           \* the frame get_base_data_weekly builds
    bresult              \* running, returned (the frame), raised

base == <<indicator_rows, bfn, bpc, bconn, bcloses, df_daily, df_weekly,
          bresult>>

\* The state of generate_sma_support_report.
VARIABLES
    symbols_df,          \* the symbols retrieve_equity_symbol returns
    price_data,          \* what read_sql gives for a symbol and a timeframe
    gpc,                 \* position of the call
    gconn,               \* conn of the report: unbound, open, closed
    fconn,               \* conn of fetch_price_data: none, open, closed
    sym_ix,              \* the symbol in hand
    tf_ix,               \* the timeframe in hand
    report_rows,         \* the rows of the report so far
    glogged,             \* what was passed to log, oldest first
    gresult              \* running, returned, raised

sma == <<symbols_df, price_data, gpc, gconn, fconn, sym_ix, tf_ix,
         report_rows, glogged, gresult>>

\* The state of a call of get_candle_type.
VARIABLES
    candle,              \* open, high, low, close
    candle_type          \* the label returned, NONE before the call

kline == <<candle, candle_type>>

rest == <<base, sma, kline>>
vars == <<run, alloc, rest>>

\* ------------------------------------------------------------ conversions
\* n / d rounded to the nearest integer, halves to even (Python's round).
RoundHalfEven(n, d) ==
    LET q == n \div d
        r == n % d
    IN  IF 2 * r < d THEN q
        ELSE IF 2 * r > d THEN q + 1
        ELSE IF q % 2 = 0 THEN q ELSE q + 1

\* round(x, 2) of a price in thousandths.
Round2(x) == 10 * RoundHalfEven(x, 10)

\* Mutant of GainPct: the gain of the prices rounded to two decimals.
GainPctOfRounded(exit, buy) ==
    RoundHalfEven(10000 * (Round2(exit) - Round2(buy)), Round2(buy))

\* round((exit - buy) / buy * 100, 2), in hundredths of a percent.
GainPct(exit, buy) == RoundHalfEven(10000 * (exit - buy), buy)

Min(a, b) == IF a <= b THEN a ELSE b

\* The rows of a set in ascending date order (ORDER BY date ASC).
RECURSIVE SortByDate(_)
SortByDate(rows) ==
    IF rows = {} THEN <<>>
    ELSE LET first == CHOOSE r \in rows : \A o \in rows : r.date <= o.date
         IN  <<first>> \o SortByDate(rows \ {first})


\* ---------------------------------------------------------------- queries
\* Mutant of BuyQuery: date >= ? in place of date > ?.
BuyQueryOnOrAfter(symbol_id, signal_date) ==
    LET rows == SortByDate({r \in equity_price_data :
                              r.symbol_id = symbol_id /\ r.date >= signal_date})
    IN  IF rows = <<>> THEN <<>> ELSE <<rows[1]>>

\* price_sql: the first daily bar of the symbol dated after the signal.
\* signal_date.strftime("%Y-%m-%d") keeps the day of the signal, and a date of
\* the model is a day.
BuyQuery(symbol_id, signal_date) ==
    LET rows == SortByDate({r \in equity_price_data :
                              r.symbol_id = symbol_id /\ r.date > signal_date})
    IN  IF rows = <<>> THEN <<>> ELSE <<rows[1]>>

\* atr_sql: the indicator rows of the symbol on the buy date.
AtrQuery(symbol_id, date) ==
    SortByDate({r \in equity_indicators :
                  r.symbol_id = symbol_id /\ r.date = date})

\* Mutant of SwingRows: every earlier bar, with no lower date bound.
SwingRowsAllPrior(symbol_id, date) ==
    {r \in equity_price_data : r.symbol_id = symbol_id /\ r.date < date}

\* The bars swing_sql aggregates over.
SwingRows(symbol_id, date) ==
    {r \in equity_price_data :
        r.symbol_id = symbol_id /\ r.date < date /\ r.date >= date - SwingDays}

\* swing_sql: MIN(low) over SwingRows, NULL over no rows.
SwingQuery(symbol_id, date) ==
    LET lows == {r.low : r \in SwingRows(symbol_id, date)}
    IN  IF lows = {} THEN NULL
        ELSE CHOOSE m \in lows : \A o \in lows : m <= o

\* Mutant of ForwardQuery: date > ? in place of date >= ?.
ForwardQueryAfter(symbol_id, date) ==
    SortByDate({r \in equity_price_data :
                  r.symbol_id = symbol_id /\ r.date > date})

\* forward_sql: the bars of the symbol from the buy date on, oldest first.
ForwardQuery(symbol_id, date) ==
    SortByDate({r \in equity_price_data :
                  r.symbol_id = symbol_id /\ r.date >= date})

\* Mutant of StopLoss: max in place of min.
StopLossMax(price, a, swing) ==
    IF price - a >= swing THEN price - a ELSE swing

\* Mutant of StopLoss: the greater of buy_price + atr and swing_low.
StopLossAboveEntry(price, a, swing) ==
    IF price + a >= swing THEN price + a ELSE swing

\* stop_loss = min(buy_price - atr, swing_low).
StopLoss(price, a, swing) == Min(price - a, swing)

\* Mutant of Target: target = buy_price * 1.10.
TargetTenPercent(price) == price * 110

\* target = buy_price * 1.05, in hundredths of a price unit.
Target(price) == price * TargetPct

\* close_price <= stop_loss.
HitsStop(close, stop) == close <= stop

\* Mutant of HitsTarget: close_price * 1.05 >= target.
HitsTargetEarly(close, tgt) == TargetPct * close >= tgt

\* close_price >= target.
HitsTarget(close, tgt) == 100 * close >= tgt

\* The record trades.append receives.
TradeRecord ==
    LET gain_pct == GainPct(exit_price, buy_price)
    IN  [symbol         |-> df[i].symbol,
         buy_date       |-> buy_date,
         buy_price      |-> Round2(buy_price),
         atr_14         |-> Round2(atr),
         swing_low      |-> Round2(swing_low),
         stop_loss_used |-> Round2(stop_loss),
         exit_date      |-> exit_date,
         exit_price     |-> Round2(exit_price),
         exit_reason    |-> exit_reason,
         gain_pct       |-> gain_pct,
         win            |-> gain_pct > 0]

\* ------------------------------------------------------------ initial state
\* The tables: the rows of symbol 1 are any bars on Dates (one per date) and
\* no or one indicator row; those of symbol 2 are OtherBars, OtherInds.
PriceTables ==
    { { [symbol_id |-> 1, date |-> d, open |-> f[d].open, low |-> f[d].low,
         close |-> f[d].close] : d \in DOMAIN f } \cup OtherBars :
      f \in UNION { [D -> BarShapes] : D \in SUBSET Dates } }

IndicatorTables ==
    { { [symbol_id |-> 1, date |-> d, atr_14 |-> f[d].atr_14,
         is_final |-> f[d].is_final] : d \in DOMAIN f } \cup OtherInds :
      f \in UNION { [D -> IndShapes] :
                    D \in {{}} \cup {{d} : d \in Dates} } }

\* A row of the signal file: a symbol and the date of a bar that has a later date.
SignalRows ==
    { [symbol_id |-> s, symbol |-> s, date |-> d] :
      s \in Symbols, d \in {e \in Dates : \E later \in Dates : later > e} }

SignalFiles == UNION { [1..n -> SignalRows] : n \in 0..MaxSignals }

\* Line 23: the columns a signal file must have.
required_cols == {"symbol_id", "symbol", "date"}

\* The rows of a file that has only the columns cols.
Project(file, cols) == [j \in DOMAIN file |-> [c \in cols |-> file[j][c]]]

\* The tables in which symbol 1 has no row.
FixedTables ==
    /\ equity_price_data = OtherBars
    /\ equity_indicators = OtherInds

\* A run on a well-formed file with a data source that opens.
InitRun ==
    /\ equity_price_data \in PriceTables
    /\ equity_indicators \in IndicatorTables
    /\ df \in SignalFiles
    /\ columns = required_cols
    /\ db_up = TRUE

\* A run on a file that lacks one or more of the required columns.
InitMalformed ==
    /\ FixedTables
    /\ columns \in (SUBSET required_cols) \ {required_cols}
    /\ df \in {Project(file, columns) : file \in SignalFiles}
    /\ db_up \in BOOLEAN

\* The worked example, prices in thousandths and days of January 2025: the
\* signal (SYM, 10); a bar on day 10 with low 92; the bar of day 13 with open
\* 100; atr_14 5 on day 13; the bars of days 14 and 15 with close 104 and
\* 106.  The close of the bar of day 13 is not given by the example.
SYM == 3
ExampleEntryCloses == {92000, 101000, 105000}
ExampleBars(entry_close) ==
    { [symbol_id |-> SYM, date |-> 10, open |-> 96000, low |-> 92000,
       close |-> 98000],
      [symbol_id |-> SYM, date |-> 13, open |-> 100000, low |-> 92000,
       close |-> entry_close],
      [symbol_id |-> SYM, date |-> 14, open |-> 101000, low |-> 100000,
       close |-> 104000],
      [symbol_id |-> SYM, date |-> 15, open |-> 104000, low |-> 103000,
       close |-> 106000] }
ExampleFile == << [symbol_id |-> SYM, symbol |-> SYM, date |-> 10] >>

InitExample ==
    /\ equity_price_data \in {ExampleBars(c) : c \in ExampleEntryCloses}
    /\ equity_indicators =
          { [symbol_id |-> SYM, date |-> 13, atr_14 |-> 5000, is_final |-> TRUE] }
    /\ df = ExampleFile
    /\ columns = required_cols
    /\ db_up = TRUE

\* A run on a well-formed file with a data source that cannot be opened.
InitUnreachable ==
    /\ FixedTables
    /\ df \in SignalFiles
    /\ columns = required_cols
    /\ db_up = FALSE

\* The capital of a run of allocate, and a capital as the pair num, den of
\* its exact value.
startingCapital == 1000
Rational(n) == <<n, 1>>

\* allocate is not running.
AllocIdle ==
    /\ feed = <<>>
    /\ apc = "idle"
    /\ pending = <<>>
    /\ cohorts = <<>>
    /\ capital = Rational(startingCapital)

\* get_base_data and get_base_data_weekly are not running.
BaseIdle ==
    /\ indicator_rows = {}
    /\ bfn = "none"
    /\ bpc = "idle"
    /\ bconn = "none"
    /\ bcloses = 0
    /\ df_daily = {}
    /\ df_weekly = {}
    /\ bresult = "running"

\* generate_sma_support_report is not running.
SmaIdle ==
    /\ symbols_df = <<>>
    /\ price_data = <<>>
    /\ gpc = "idle"
    /\ gconn = "unbound"
    /\ fconn = "none"
    /\ sym_ix = 0
    /\ tf_ix = 0
    /\ report_rows = <<>>
    /\ glogged = <<>>
    /\ gresult = "running"

\* get_candle_type is not called.
KlineIdle ==
    /\ candle = [open |-> 0, high |-> 0, low |-> 0, close |-> 0]
    /\ candle_type = "NONE"

Init ==
    /\ InitRun \/ InitMalformed \/ InitUnreachable \/ InitExample
    /\ AllocIdle
    /\ BaseIdle /\ SmaIdle /\ KlineIdle
    /\ pc = "start"
    /\ conn = "none"
    /\ i = 0
    /\ trades = <<>>
    /\ buy_date = NULL /\ buy_price = NULL
    /\ atr = NULL /\ swing_low = NULL /\ stop_loss = NULL /\ target = NULL
    /\ forward_df = <<>> /\ k = 0
    /\ exit_price = NULL /\ exit_date = NULL /\ exit_reason = "NONE"
    /\ result = "running"
    /\ logged = <<>>
    /\ summary = NULL

\* ------------------------------------------------------------------ actions
\* Lines 166-168: the handler of every exception of the body logs the
\* failure and falls off the end of the function, which returns None.
Handler(e) ==
    /\ logged' = Append(logged, e)
    /\ result' = "none"
    /\ pc' = "done"
    /\ UNCHANGED <<db, conn, i, trades, entry, levels, walk, summary, alloc, rest>>

\* Line 21: converting the date column of a file that has none raises.
DateMissing ==
    /\ pc = "start"
    /\ "date" \notin columns
    /\ Handler("KeyError")

\* Lines 23-25: a file with a date column and without another required one.
ColumnsMissing ==
    /\ pc = "start"
    /\ "date" \in columns
    /\ ~(required_cols \subseteq columns)
    /\ Handler("ValueError")

\* Line 27: the data source cannot be opened.
OpenFails ==
    /\ pc = "start"
    /\ required_cols \subseteq columns
    /\ ~db_up
    /\ Handler("OpenError")

\* Lines 43, 56, 68, 86: a query of the row raises.
QueryFails ==
    /\ \/ pc = "row" /\ i <= Len(df)
       \/ pc \in {"atr", "levels"}
    /\ Handler("QueryError")

\* Mutant of Start: the columns are not checked.
StartUnchecked ==
    /\ pc = "start"
    /\ db_up
    /\ conn' = "open"
    /\ trades' = <<>>
    /\ i' = 1
    /\ pc' = "row"
    /\ UNCHANGED <<db, entry, levels, walk, result, report, alloc, rest>>

\* Lines 19-28: read the file, open the connection, start with no trades.
Start ==
    /\ pc = "start"
    /\ required_cols \subseteq columns
    /\ db_up
    /\ conn' = "open"
    /\ trades' = <<>>
    /\ i' = 1
    /\ pc' = "row"
    /\ UNCHANGED <<db, entry, levels, walk, result, report, alloc, rest>>

\* Mutant of EntrySkip: break in place of continue.
EntrySkipBreaks ==
    /\ pc = "row" /\ i <= Len(df)
    /\ LET buy_df == BuyQuery(df[i].symbol_id, df[i].date)
       IN  IF buy_df = <<>> THEN TRUE ELSE buy_df[1].open = NULL
    /\ i' = Len(df) + 1
    /\ UNCHANGED <<db, pc, conn, trades, entry, levels, walk, result, report, alloc, rest>>

\* Lines 30-45: the next row has no bar after its date, or a bar without open.
EntrySkip ==
    /\ pc = "row" /\ i <= Len(df)
    /\ LET buy_df == BuyQuery(df[i].symbol_id, df[i].date)
       IN  IF buy_df = <<>> THEN TRUE ELSE buy_df[1].open = NULL
    /\ i' = i + 1
    /\ UNCHANGED <<db, pc, conn, trades, entry, levels, walk, result, report, alloc, rest>>

\* Lines 30-48: buy at the open of the first bar after the signal date.
EntryFound ==
    /\ pc = "row" /\ i <= Len(df)
    /\ LET buy_df == BuyQuery(df[i].symbol_id, df[i].date)
       IN  /\ buy_df # <<>> /\ buy_df[1].open # NULL
           /\ buy_date' = buy_df[1].date
           /\ buy_price' = buy_df[1].open
    /\ pc' = "atr"
    /\ UNCHANGED <<db, conn, i, trades, levels, walk, result, report, alloc, rest>>

\* Lines 50-58: no indicator row on the buy date, or one without atr_14.
AtrSkip ==
    /\ pc = "atr"
    /\ LET atr_df == AtrQuery(df[i].symbol_id, buy_date)
       IN  IF atr_df = <<>> THEN TRUE ELSE atr_df[1].atr_14 = NULL
    /\ i' = i + 1
    /\ pc' = "row"
    /\ UNCHANGED <<db, conn, trades, entry, levels, walk, result, report, alloc, rest>>

\* Lines 50-59: atr_14 of the buy date.
AtrFound ==
    /\ pc = "atr"
    /\ LET atr_df == AtrQuery(df[i].symbol_id, buy_date)
       IN  /\ atr_df # <<>> /\ atr_df[1].atr_14 # NULL
           /\ atr' = atr_df[1].atr_14
    /\ pc' = "levels"
    /\ UNCHANGED <<db, conn, i, trades, entry, swing_low, stop_loss, target,
                   walk, result, report, alloc, rest>>

\* Mutant of Levels: exit_price, exit_date and exit_reason are not reset.
LevelsKeepsExit ==
    /\ pc = "levels"
    /\ LET q == SwingQuery(df[i].symbol_id, buy_date)
           swing == IF q = NULL THEN buy_price - atr ELSE q
       IN  /\ swing_low' = swing
           /\ stop_loss' = StopLoss(buy_price, atr, swing)
    /\ target' = Target(buy_price)
    /\ forward_df' = ForwardQuery(df[i].symbol_id, buy_date)
    /\ k' = 1
    /\ exit_reason' = IF exit_reason = "NONE" THEN "EOD" ELSE exit_reason
    /\ pc' = "walk"
    /\ UNCHANGED <<db, conn, i, trades, entry, atr, exit_price, exit_date,
                   result, report, alloc, rest>>

\* Lines 61-88: swing low with its fallback, stop-loss, target, forward bars.
Levels ==
    /\ pc = "levels"
    /\ LET q == SwingQuery(df[i].symbol_id, buy_date)
           swing == IF q = NULL THEN buy_price - atr ELSE q
       IN  /\ swing_low' = swing
           /\ stop_loss' = StopLoss(buy_price, atr, swing)
    /\ target' = Target(buy_price)
    /\ forward_df' = ForwardQuery(df[i].symbol_id, buy_date)
    /\ k' = 1
    /\ exit_price' = NULL /\ exit_date' = NULL /\ exit_reason' = "EOD"
    /\ pc' = "walk"
    /\ UNCHANGED <<db, conn, i, trades, entry, atr, result, report, alloc, rest>>

\* Lines 90-98: the bar closes at or under the stop-loss.
WalkStop ==
    /\ pc = "walk" /\ k <= Len(forward_df)
    /\ HitsStop(forward_df[k].close, stop_loss)
    /\ exit_price' = forward_df[k].close
    /\ exit_date' = forward_df[k].date
    /\ exit_reason' = "STOP"
    /\ pc' = "after"
    /\ UNCHANGED <<db, conn, i, trades, entry, levels, forward_df, k, result, report, alloc, rest>>

\* Mutant of WalkTarget: the target is tested before the stop-loss.
WalkTargetFirst ==
    /\ pc = "walk" /\ k <= Len(forward_df)
    /\ HitsTarget(forward_df[k].close, target)
    /\ exit_price' = forward_df[k].close
    /\ exit_date' = forward_df[k].date
    /\ exit_reason' = "TARGET"
    /\ pc' = "after"
    /\ UNCHANGED <<db, conn, i, trades, entry, levels, forward_df, k, result, report, alloc, rest>>

\* Lines 100-105: the bar closes over the stop-loss and at or over the target.
WalkTarget ==
    /\ pc = "walk" /\ k <= Len(forward_df)
    /\ ~HitsStop(forward_df[k].close, stop_loss)
    /\ HitsTarget(forward_df[k].close, target)
    /\ exit_price' = forward_df[k].close
    /\ exit_date' = forward_df[k].date
    /\ exit_reason' = "TARGET"
    /\ pc' = "after"
    /\ UNCHANGED <<db, conn, i, trades, entry, levels, forward_df, k, result, report, alloc, rest>>

\* Line 90: neither condition holds, on to the next bar.
WalkOn ==
    /\ pc = "walk" /\ k <= Len(forward_df)
    /\ ~HitsStop(forward_df[k].close, stop_loss)
    /\ ~HitsTarget(forward_df[k].close, target)
    /\ k' = k + 1
    /\ UNCHANGED <<db, pc, conn, i, trades, entry, levels, forward_df,
                   exit_price, exit_date, exit_reason, result, report, alloc, rest>>

\* Line 90: the bars are exhausted.
WalkEnd ==
    /\ pc = "walk" /\ k > Len(forward_df)
    /\ pc' = "after"
    /\ UNCHANGED <<db, conn, i, trades, entry, levels, walk, result, report, alloc, rest>>

\* Mutant of LastClose: iloc[0] in place of iloc[-1].
LastCloseOfFirstBar ==
    /\ pc = "after"
    /\ IF exit_price = NULL /\ forward_df # <<>>
       THEN /\ exit_price' = forward_df[1].close
            /\ exit_date' = forward_df[1].date
       ELSE UNCHANGED <<exit_price, exit_date>>
    /\ pc' = "record"
    /\ UNCHANGED <<db, conn, i, trades, entry, levels, forward_df, k,
                   exit_reason, result, report, alloc, rest>>

\* Mutant of LastClose: no exit at the last close.
LastCloseNever ==
    /\ pc = "after"
    /\ pc' = "record"
    /\ UNCHANGED <<db, conn, i, trades, entry, levels, walk, result, report, alloc, rest>>

\* Lines 107-110: if nothing was hit, exit at the close of the last forward bar.
LastClose ==
    /\ pc = "after"
    /\ IF exit_price = NULL /\ forward_df # <<>>
       THEN /\ exit_price' = forward_df[Len(forward_df)].close
            /\ exit_date' = forward_df[Len(forward_df)].date
       ELSE UNCHANGED <<exit_price, exit_date>>
    /\ pc' = "record"
    /\ UNCHANGED <<db, conn, i, trades, entry, levels, forward_df, k,
                   exit_reason, result, report, alloc, rest>>

\* Lines 112-128: without an exit price the row is dropped, else its trade is
\* appended.
Record ==
    /\ pc = "record"
    /\ trades' = IF exit_price = NULL THEN trades ELSE Append(trades, TradeRecord)
    /\ i' = i + 1
    /\ pc' = "row"
    /\ UNCHANGED <<db, conn, entry, levels, walk, result, report, alloc, rest>>

\* ------------------------------------------------------- summary statistics
\* A statistic that is a quotient is kept as the pair num, den of its exact
\* value; max_drawdown is kept as a fraction of one, the unit of which the
\* code's percent is the hundredth.
RECURSIVE Sum(_)
Sum(gs) == IF gs = <<>> THEN 0 ELSE gs[1] + Sum(Tail(gs))

RECURSIVE Pow(_)
Pow(n) == IF n = 0 THEN 1 ELSE 10000 * Pow(n - 1)

\* Line 145: cumulative[b] / cumulative[a] for a <= b is Growth(gs, a, b)
\* over Pow(b - a), a trade's factor 1 + gain_pct/100 being
\* (10000 + gain_pct) / 10000.
RECURSIVE Growth(_, _, _)
Growth(gs, a, b) ==
    IF a >= b THEN 1 ELSE Growth(gs, a, b - 1) * (10000 + gs[b])

\* Line 146: the position of the running maximum of cumulative at position n.
RECURSIVE CumMaxAt(_, _)
CumMaxAt(gs, n) ==
    IF n = 1 THEN 1
    ELSE LET m == CumMaxAt(gs, n - 1)
         IN  IF Growth(gs, m, n) > Pow(n - m) THEN n ELSE m

\* Line 147: drawdown at position n, over the denominator Pow(Len(gs) - 1).
Drawdown(gs, n) ==
    LET m == CumMaxAt(gs, n)
    IN  (Growth(gs, m, n) - Pow(n - m)) * Pow(Len(gs) - 1 - (n - m))

\* Mutant of MaxDrawdown: drawdown.max() in place of drawdown.min().
MaxDrawdownIsMax(gs) ==
    [num |-> CHOOSE d \in {Drawdown(gs, n) : n \in DOMAIN gs} :
                 \A n \in DOMAIN gs : Drawdown(gs, n) <= d,
     den |-> Pow(Len(gs) - 1)]

\* Line 148: the least drawdown.
MaxDrawdown(gs) ==
    [num |-> CHOOSE d \in {Drawdown(gs, n) : n \in DOMAIN gs} :
                 \A n \in DOMAIN gs : d <= Drawdown(gs, n),
     den |-> Pow(Len(gs) - 1)]

\* Mutant of Summary: max_gain is the gain of the first trade.
SummaryFirstGain(result_df) ==
    LET gs == [n \in DOMAIN result_df |-> result_df[n].gain_pct]
        wins == Cardinality({n \in DOMAIN result_df : result_df[n].win})
    IN  [total_trades |-> Len(result_df),
         win_rate     |-> [num |-> 100 * wins, den |-> Len(result_df)],
         avg_return   |-> [num |-> Sum(gs), den |-> Len(result_df)],
         max_gain     |-> gs[1],
         max_loss     |-> CHOOSE g \in {gs[n] : n \in DOMAIN gs} :
                              \A n \in DOMAIN gs : g <= gs[n],
         max_drawdown |-> MaxDrawdown(gs)]

\* Lines 136-148: the statistics of the trades, in the order of the list.
Summary(result_df) ==
    LET gs == [n \in DOMAIN result_df |-> result_df[n].gain_pct]
        wins == Cardinality({n \in DOMAIN result_df : result_df[n].win})
    IN  [total_trades |-> Len(result_df),
         win_rate     |-> [num |-> 100 * wins, den |-> Len(result_df)],
         avg_return   |-> [num |-> Sum(gs), den |-> Len(result_df)],
         max_gain     |-> CHOOSE g \in {gs[n] : n \in DOMAIN gs} :
                              \A n \in DOMAIN gs : gs[n] <= g,
         max_loss     |-> CHOOSE g \in {gs[n] : n \in DOMAIN gs} :
                              \A n \in DOMAIN gs : g <= gs[n],
         max_drawdown |-> MaxDrawdown(gs)]

\* Mutant of Finish: the return without trades comes before the close.
FinishReturnsBeforeClose ==
    /\ pc = "row" /\ i > Len(df)
    /\ IF trades = <<>>
       THEN /\ result' = "none"
            /\ UNCHANGED <<conn, summary>>
       ELSE /\ conn' = "closed"
            /\ summary' = Summary(trades)
            /\ result' = "frames"
    /\ pc' = "done"
    /\ UNCHANGED <<db, i, trades, entry, levels, walk, logged, alloc, rest>>

\* Lines 130-164: close the connection; without trades return nothing, else
\* compute the summary and return the result frames.
Finish ==
    /\ pc = "row" /\ i > Len(df)
    /\ conn' = "closed"
    /\ IF trades = <<>>
       THEN /\ result' = "none"
            /\ UNCHANGED summary
       ELSE /\ summary' = Summary(trades)
            /\ result' = "frames"
    /\ pc' = "done"
    /\ UNCHANGED <<db, i, trades, entry, levels, walk, logged, alloc, rest>>

Next ==
    \/ DateMissing
    \/ ColumnsMissing
    \/ OpenFails
    \/ Start
    \/ QueryFails
    \/ EntrySkip
    \/ EntryFound
    \/ AtrSkip
    \/ AtrFound
    \/ Levels
    \/ WalkStop
    \/ WalkTarget
    \/ WalkOn
    \/ WalkEnd
    \/ LastClose
    \/ Record
    \/ Finish

Spec == Init /\ [][Next]_vars

\* ======================================================= weekly cohorts
\* allocate(signals_by_week, startingCapital, config): the trades of the feed
\* are partitioned by week and the capital is folded over the weeks.
\* Days are numbered from a Monday; a trade of the feed is the result of the
\* simulation of its signal.

\* --------------------------------------------------------------- inputs
\* Signal dates: Monday, Sunday of week 0, Monday, Friday of week 7, Monday
\* of week 14.
FeedDays == {0, 6, 7, 11, 14}
\* Results of a simulation: no trade, a loss of 10%, a gain of 10%.
TradeShapes ==
    { [exit_reason |-> "SKIPPED", entry_price |-> NULL, exit_price |-> NULL],
      [exit_reason |-> "STOP",    entry_price |-> 100,  exit_price |-> 90],
      [exit_reason |-> "TARGET",  entry_price |-> 100,  exit_price |-> 110] }

FeedTrades ==
    { [signal_date |-> d, exit_reason |-> t.exit_reason,
       entry_price |-> t.entry_price, exit_price |-> t.exit_price] :
      d \in FeedDays, t \in TradeShapes }

Feeds == UNION { [1..n -> FeedTrades] : n \in 0..MaxFeed }

\* ------------------------------------------------------- exact quotients
RECURSIVE GCD(_, _)
GCD(a, b) == IF b = 0 THEN a ELSE GCD(b, a % b)

Abs(n) == IF n < 0 THEN -n ELSE n

\* The quotient n / d, d > 0, in lowest terms.
Quotient(n, d) ==
    LET g == GCD(Abs(n), d)
    IN  IF n = 0 THEN <<0, 1>> ELSE <<n \div g, d \div g>>

Plus(x, y) == Quotient(x[1] * y[2] + y[1] * x[2], x[2] * y[2])
Times(x, y) == Quotient(x[1] * y[1], x[2] * y[2])
DividedBy(x, n) == Quotient(x[1], x[2] * n)

\* ------------------------------------------------------------ operators
\* The Monday of the week of a day.
week_start(d) == d - (d % 7)

Weeks(f) == {week_start(f[n].signal_date) : n \in DOMAIN f}

MaxWeek(f) == CHOOSE w \in Weeks(f) : \A v \in Weeks(f) : v <= w

RECURSIVE Ascending(_)
Ascending(S) ==
    IF S = {} THEN <<>>
    ELSE LET m == CHOOSE w \in S : \A v \in S : w <= v
         IN  <<m>> \o Ascending(S \ {m})

\* Mutant of WeekOrder: the weeks in the order in which the feed meets them.
RECURSIVE WeekOrderOfFeed(_)
WeekOrderOfFeed(f) ==
    IF f = <<>> THEN <<>>
    ELSE LET front == WeekOrderOfFeed(SubSeq(f, 1, Len(f) - 1))
             w == week_start(f[Len(f)].signal_date)
         IN  IF \E n \in DOMAIN front : front[n] = w THEN front
             ELSE Append(front, w)

\* The cohorts of a feed, by ascending week_start.
WeekOrder(f) == Ascending(Weeks(f))

\* The trades of the feed that fall in the week w.
CohortTrades(f, w) ==
    SelectSeq(f, LAMBDA t : week_start(t.signal_date) = w)

\* Mutant of ValidTrades: the SKIPPED trades are kept.
AllTrades(ts) == ts

\* The trades of a cohort that are kept.
ValidTrades(ts) == SelectSeq(ts, LAMBDA t : t.exit_reason # "SKIPPED")

\* (exit_price - entry_price) / entry_price of a trade, 0 without prices.
Return(t) ==
    IF t.exit_reason = "SKIPPED" THEN <<0, 1>>
    ELSE Quotient(t.exit_price - t.entry_price, t.entry_price)

\* pnl: the sum of the returns of the trades, each on capital_per_trade.
RECURSIVE Pnl(_, _)
Pnl(ts, capital_per_trade) ==
    IF ts = <<>> THEN <<0, 1>>
    ELSE Plus(Times(Return(Head(ts)), capital_per_trade),
              Pnl(Tail(ts), capital_per_trade))

\* The cohort of the week w, processed with capital_before.
Cohort(f, w, capital_before) ==
    LET valid == ValidTrades(CohortTrades(f, w))
        pnl == IF valid = <<>> THEN <<0, 1>>
               ELSE Pnl(valid, DividedBy(capital_before, Len(valid)))
    IN  [week_start     |-> w,
         trades         |-> valid,
         capital_before |-> capital_before,
         pnl            |-> pnl,
         capital_after  |-> Plus(capital_before, pnl)]

\* --------------------------------------------------------- initial state
\* backtest_scanner is not running.
RunIdle ==
    /\ FixedTables
    /\ df = <<>>
    /\ columns = required_cols
    /\ db_up = TRUE
    /\ pc = "idle"
    /\ conn = "none"
    /\ i = 0
    /\ trades = <<>>
    /\ buy_date = NULL /\ buy_price = NULL
    /\ atr = NULL /\ swing_low = NULL /\ stop_loss = NULL /\ target = NULL
    /\ forward_df = <<>> /\ k = 0
    /\ exit_price = NULL /\ exit_date = NULL /\ exit_reason = "NONE"
    /\ result = "running"
    /\ logged = <<>>
    /\ summary = NULL

InitAllocate ==
    /\ RunIdle
    /\ BaseIdle /\ SmaIdle /\ KlineIdle
    /\ feed \in Feeds
    /\ apc = "partition"
    /\ pending = <<>>
    /\ cohorts = <<>>
    /\ capital = Rational(startingCapital)

\* --------------------------------------------------------------- actions
\* The signals are partitioned into weeks, the weeks put in order.
Partition ==
    /\ apc = "partition"
    /\ pending' = WeekOrder(feed)
    /\ apc' = "fold"
    /\ UNCHANGED <<run, rest, feed, cohorts, capital>>

\* Mutant of ProcessCohort: every cohort starts from the starting capital.
ProcessCohortFromStart ==
    /\ apc = "fold" /\ pending # <<>>
    /\ Head(pending) # MaxWeek(feed)
    /\ LET c == Cohort(feed, Head(pending), Rational(startingCapital))
       IN  /\ cohorts' = Append(cohorts, c)
           /\ capital' = c.capital_after
    /\ pending' = Tail(pending)
    /\ UNCHANGED <<run, rest, feed, apc>>

\* The next cohort is processed with the capital the one before it left.
ProcessCohort ==
    /\ apc = "fold" /\ pending # <<>>
    /\ Head(pending) # MaxWeek(feed)
    /\ LET c == Cohort(feed, Head(pending), capital)
       IN  /\ cohorts' = Append(cohorts, c)
           /\ capital' = c.capital_after
    /\ pending' = Tail(pending)
    /\ UNCHANGED <<run, rest, feed, apc>>

\* Mutant of SkipMaxWeek: the cohort of the maximum week is processed.
SkipNothing ==
    /\ apc = "fold" /\ pending # <<>>
    /\ Head(pending) = MaxWeek(feed)
    /\ LET c == Cohort(feed, Head(pending), capital)
       IN  /\ cohorts' = Append(cohorts, c)
           /\ capital' = c.capital_after
    /\ pending' = Tail(pending)
    /\ UNCHANGED <<run, rest, feed, apc>>

\* The cohort of the maximum week_start of the feed is skipped.
SkipMaxWeek ==
    /\ apc = "fold" /\ pending # <<>>
    /\ Head(pending) = MaxWeek(feed)
    /\ pending' = Tail(pending)
    /\ UNCHANGED <<run, rest, feed, apc, cohorts, capital>>

\* No cohort is left: the cohorts are returned.
Allocated ==
    /\ apc = "fold" /\ pending = <<>>
    /\ apc' = "done"
    /\ UNCHANGED <<run, rest, feed, pending, cohorts, capital>>

NextAllocate ==
    \/ Partition
    \/ ProcessCohort
    \/ SkipMaxWeek
    \/ Allocated

SpecAllocate == InitAllocate /\ [][NextAllocate]_vars

\* ------------------------------------------------------------------ claims
\* The bars of a symbol.
Bars(symbol_id) == {r \in equity_price_data : r.symbol_id = symbol_id}

\* The levels of the row in hand are set.
AfterLevels == pc \in {"walk", "after", "record"}

\* The row in hand is about to be appended to trades.
RecordsTrade == pc = "record" /\ exit_price # NULL

\* x is y rounded to the nearest multiple of 10 (two decimals).
NearestCent(x, y) == x % 10 = 0 /\ 2 * (x - y) <= 10 /\ 2 * (y - x) <= 10

\* g is (exit - buy) / buy * 100 rounded to the nearest hundredth.
NearestGain(g, exit, buy) ==
    LET e == g * buy - 10000 * (exit - buy)
    IN  2 * e <= buy /\ 2 * (0 - e) <= buy

\* The least low of a non-empty set of bars.
MinLow(rows) == CHOOSE m \in {r.low : r \in rows} : \A o \in rows : m <= o.low

\* The n latest bars of a set.
LastBars(rows, n) ==
    {r \in rows : Cardinality({o \in rows : o.date > r.date}) < n}

\* C1 as stated: the recorded trade is entered on the earliest bar dated after
\* the signal date, and its recorded buy_price is that bar's open exactly.
C1_RecordedOpenExact ==
    RecordsTrade =>
        \E r \in Bars(df[i].symbol_id) :
            /\ r.date > df[i].date
            /\ \A o \in Bars(df[i].symbol_id) : o.date > df[i].date => r.date <= o.date
            /\ TradeRecord.buy_date = r.date
            /\ TradeRecord.buy_date > df[i].date
            /\ TradeRecord.buy_price = r.open

\* C1 amended: the recorded trade is entered on the earliest bar dated after
\* the signal date, the entry price the simulation uses is that bar's open
\* exactly, and the recorded buy_price is that open rounded to two decimals.
C1_EntryAtNextOpen ==
    RecordsTrade =>
        \E r \in Bars(df[i].symbol_id) :
            /\ r.date > df[i].date
            /\ \A o \in Bars(df[i].symbol_id) : o.date > df[i].date => r.date <= o.date
            /\ TradeRecord.buy_date = r.date
            /\ TradeRecord.buy_date > df[i].date
            /\ buy_price = r.open
            /\ NearestCent(TradeRecord.buy_price, r.open)

\* C1 witness: a trade is recorded for a signal with two later bars, bought at
\* an open that has a third decimal.
C1_Witness ==
    /\ RecordsTrade
    /\ Cardinality({r \in Bars(df[i].symbol_id) : r.date > df[i].date}) >= 2
    /\ buy_price % 10 # 0
    /\ TradeRecord.buy_price # buy_price

\* C2: a STOP trade exits at a close at or under its stop-loss, a TARGET trade
\* at a close at or over its target, and an exit bar that meets both
\* conditions gives STOP.
C2_StopBeforeTarget ==
    RecordsTrade =>
        /\ exit_reason = "STOP" =>
              /\ exit_price <= stop_loss
              /\ TradeRecord.exit_price <= TradeRecord.stop_loss_used
        /\ exit_reason = "TARGET" => 100 * exit_price >= target
        /\ (exit_price <= stop_loss /\ 100 * exit_price >= target) =>
              exit_reason = "STOP"

\* C2 witness: a trade exits on a bar whose close is at or under the stop-loss
\* and at or over the target, with reason STOP.
C2_Witness ==
    /\ RecordsTrade
    /\ exit_price <= stop_loss
    /\ 100 * exit_price >= target
    /\ exit_reason = "STOP"

\* C3: the forward bars are the bars of the symbol dated on or after the buy
\* date, the entry bar first, in ascending date order; the walk has passed
\* only bars that met neither condition; a STOP or TARGET trade exits on the
\* earliest bar that meets one; and no trade exits before its entry.
C3_ForwardWalk ==
    /\ AfterLevels =>
          /\ {forward_df[j] : j \in 1..Len(forward_df)}
                = {r \in Bars(df[i].symbol_id) : r.date >= buy_date}
          /\ \A j, l \in 1..Len(forward_df) :
                j < l => forward_df[j].date < forward_df[l].date
          /\ Len(forward_df) >= 1
          /\ forward_df[1].date = buy_date
    /\ pc = "walk" =>
          \A j \in 1..(k - 1) :
              /\ forward_df[j].close > stop_loss
              /\ 100 * forward_df[j].close < target
    /\ (pc \in {"after", "record"} /\ exit_reason \in {"STOP", "TARGET"}) =>
          /\ \E r \in Bars(df[i].symbol_id) :
                /\ r.date = exit_date
                /\ r.close = exit_price
                /\ (r.close <= stop_loss \/ 100 * r.close >= target)
          /\ \A r \in Bars(df[i].symbol_id) :
                (r.date >= buy_date /\ r.date < exit_date) =>
                    (r.close > stop_loss /\ 100 * r.close < target)
    /\ RecordsTrade => exit_date >= buy_date

\* C3 witness: a trade exits by STOP or TARGET on a bar after its entry bar.
C3_Witness ==
    /\ RecordsTrade
    /\ exit_reason \in {"STOP", "TARGET"}
    /\ exit_date > buy_date

\* C4: an EOD trade exits on the last bar of the symbol, at that bar's close
\* (recorded to two decimals), and no bar from the entry bar on met the STOP
\* or the TARGET condition.
C4_EodAtLastBar ==
    (RecordsTrade /\ exit_reason = "EOD") =>
        LET window == {r \in Bars(df[i].symbol_id) : r.date >= buy_date}
        IN  /\ \E last \in window :
                  /\ \A o \in window : o.date <= last.date
                  /\ exit_date = last.date
                  /\ exit_price = last.close
                  /\ TradeRecord.exit_date = last.date
                  /\ NearestCent(TradeRecord.exit_price, last.close)
            /\ \A r \in window : r.close > stop_loss /\ 100 * r.close < target

\* C4 witness: an EOD trade whose forward window holds two bars or more.
C4_Witness ==
    /\ RecordsTrade
    /\ exit_reason = "EOD"
    /\ Cardinality({r \in Bars(df[i].symbol_id) : r.date >= buy_date}) >= 2

\* C5 as stated: the recorded gain_pct is the rounded percentage gain of the
\* exit_price and buy_price fields of the same record, and win = gain_pct > 0.
C5_GainFromRecordedFields ==
    RecordsTrade =>
        /\ NearestGain(TradeRecord.gain_pct, TradeRecord.exit_price,
                       TradeRecord.buy_price)
        /\ TradeRecord.win = (TradeRecord.gain_pct > 0)

\* C5 amended: the recorded gain_pct is the rounded percentage gain of the
\* unrounded prices, the exit bar's close over the entry bar's open, and
\* win = gain_pct > 0.
C5_GainFromBarPrices ==
    RecordsTrade =>
        \E b, e \in Bars(df[i].symbol_id) :
            /\ b.date = TradeRecord.buy_date
            /\ e.date = TradeRecord.exit_date
            /\ NearestGain(TradeRecord.gain_pct, e.close, b.open)
            /\ TradeRecord.win = (TradeRecord.gain_pct > 0)

\* C5 witness: a trade whose recorded gain_pct is not the rounded gain of its
\* recorded prices.
C5_Witness ==
    /\ RecordsTrade
    /\ ~NearestGain(TradeRecord.gain_pct, TradeRecord.exit_price,
                    TradeRecord.buy_price)

\* C6: stop_loss is the lesser of buy_price - atr and swing_low, so it never
\* exceeds buy_price - atr, and with no bar in the swing window swing_low and
\* stop_loss are both buy_price - atr.
C6_StopLossIsMin ==
    /\ AfterLevels =>
          /\ stop_loss <= buy_price - atr
          /\ stop_loss <= swing_low
          /\ stop_loss \in {buy_price - atr, swing_low}
          /\ (\A r \in Bars(df[i].symbol_id) : r.date >= buy_date) =>
                (swing_low = buy_price - atr /\ stop_loss = buy_price - atr)
    /\ RecordsTrade =>
          /\ TradeRecord.stop_loss_used <= TradeRecord.swing_low
          /\ NearestCent(TradeRecord.stop_loss_used, stop_loss)

\* C6 witness: a swing low under buy_price - atr is the stop-loss.
C6_Witness ==
    /\ AfterLevels
    /\ swing_low < buy_price - atr
    /\ stop_loss = swing_low

\* C7 as stated: the swing low is the least low of the 10 bars preceding the
\* buy date (of all of them when there are fewer), whatever their dates.
C7_SwingOverTenBars ==
    AfterLevels =>
        LET prior == {r \in Bars(df[i].symbol_id) : r.date < buy_date}
        IN  prior # {} => swing_low = MinLow(LastBars(prior, 10))

\* C7 amended: the swing low is the least low of the bars dated within the 10
\* calendar days before the buy date, and buy_price - atr when there is none.
C7_SwingOverTenDays ==
    AfterLevels =>
        LET window == {r \in Bars(df[i].symbol_id) :
                          r.date < buy_date /\ buy_date - r.date <= 10}
        IN  IF window = {} THEN swing_low = buy_price - atr
            ELSE swing_low = MinLow(window)

\* C7 witness: the swing low comes from a bar of the window while an older bar,
\* more than 10 days before the buy date, has a lower low.
C7_Witness ==
    /\ AfterLevels
    /\ \E r \in Bars(df[i].symbol_id) :
          r.date < buy_date /\ buy_date - r.date <= 10 /\ r.low = swing_low
    /\ \E o \in Bars(df[i].symbol_id) :
          buy_date - o.date > 10 /\ o.low < swing_low

\* C8 as stated: the target is 10% over the buy price, and a TARGET trade
\* exits at a close at least 10% over it.
C8_TargetTenPercent ==
    AfterLevels =>
        /\ target = 110 * buy_price
        /\ exit_reason = "TARGET" => 100 * exit_price >= 110 * buy_price

\* A row that the claim calls skipped: no bar after its date (or one without
\* open), or no atr_14 on the date of that bar.
Skipped(row) ==
    LET later == {r \in Bars(row.symbol_id) : r.date > row.date}
    IN  \/ later = {}
        \/ \E r \in later :
              /\ \A o \in later : r.date <= o.date
              /\ \/ r.open = NULL
                 \/ \A x \in equity_indicators :
                       (x.symbol_id = row.symbol_id /\ x.date = r.date) =>
                           x.atr_14 = NULL

C10_AtrFromFinalRow ==
    pc \in {"levels", "walk", "after", "record"} =>
        \E x \in equity_indicators :
            /\ x.symbol_id = df[i].symbol_id
            /\ x.date = buy_date
            /\ x.atr_14 = atr
            /\ x.is_final

\* ------------------------------------------------------- failures of a run
\* C11: a file that lacks a required column is never simulated: no
\* connection is opened, no row is processed and no trade made, and the call
\* ends by logging the one failure and returning None to its caller.
C11_MalformedFileAborts ==
    ~(required_cols \subseteq columns) =>
        /\ conn = "none"
        /\ pc \in {"start", "done"}
        /\ i = 0
        /\ trades = <<>>
        /\ pc = "done" =>
              /\ Len(logged) = 1
              /\ logged[1] \in {"KeyError", "ValueError"}
              /\ result = "none"

\* C11 witness: the call on a file of one or more rows that lacks a required
\* column has returned, the data source being there to open.
C11_Witness ==
    /\ pc = "done"
    /\ ~(required_cols \subseteq columns)
    /\ Len(df) >= 1
    /\ db_up

\* C12 as stated: the connection a run opened is released on every exit path,
\* the exception of a query included.
C12_ConnectionReleased ==
    pc = "done" => conn # "open"

\* C13: a run that skips every row ends normally and empty: no trade, no
\* summary statistic, nothing logged, None returned, the connection closed.
C13_ZeroTradesEndsEmpty ==
    (/\ pc = "done"
     /\ logged = <<>>
     /\ \A j \in DOMAIN df : Skipped(df[j])) =>
        /\ trades = <<>>
        /\ summary = NULL
        /\ result = "none"
        /\ conn = "closed"

\* C13 witness: a run over one or more rows, all of them skipped, is over.
C13_Witness ==
    /\ pc = "done"
    /\ logged = <<>>
    /\ Len(df) >= 1
    /\ \A j \in DOMAIN df : Skipped(df[j])

\* C14 as stated: a run whose data source cannot be opened logs the cause and
\* does not end as a return to the caller.
C14_OpenFailureIsNotAReturn ==
    (pc = "done" /\ required_cols \subseteq columns /\ ~db_up) =>
        /\ logged # <<>>
        /\ result \notin {"none", "frames"}

\* ----------------------------------------------------------------- drawdown
\* The gains of the trades, in the order of the list.
Gains == [n \in DOMAIN trades |-> trades[n].gain_pct]

\* cum_a <= cum_b, cum_n being the product of the factors 1 + gain_pct/100 of
\* the trades 1..n.
CumLeq(gs, a, b) ==
    IF a <= b THEN Pow(b - a) <= Growth(gs, a, b)
              ELSE Growth(gs, b, a) <= Pow(a - b)

\* A position of the greatest cum among the trades 1..n.
Peak(gs, n) == CHOOSE m \in 1..n : \A j \in 1..n : CumLeq(gs, j, m)

\* (cum_n - running_max_n) / running_max_n, over the denominator
\* Pow(Len(gs) - 1).
DrawdownFromPeak(gs, n) ==
    LET m == Peak(gs, n)
    IN  (Growth(gs, m, n) - Pow(n - m)) * Pow(Len(gs) - 1 - (n - m))

\* C15: the max_drawdown of a summary is the least, over the trades in their
\* order, of (cum_i - running_max_i) / running_max_i; it is never over 0, and
\* it is 0 when cum never decreases.
C15_MaxDrawdown ==
    result = "frames" =>
        LET md == summary.max_drawdown
        IN  /\ trades # <<>>
            /\ md.den = Pow(Len(trades) - 1)
            /\ md.num <= 0
            /\ \A n \in DOMAIN trades : md.num <= DrawdownFromPeak(Gains, n)
            /\ \E n \in DOMAIN trades : md.num = DrawdownFromPeak(Gains, n)
            /\ (\A n \in 2..Len(trades) : Gains[n] >= 0) => md.num = 0

\* C15 witness: a summary of two or more trades, the growth of which has
\* decreased.
C15_Witness ==
    /\ result = "frames"
    /\ Len(trades) >= 2
    /\ summary.max_drawdown.num < 0

\* ------------------------------------------------------------ cohort claims
\* The trades of a sequence that are not SKIPPED.
NotSkipped(ts) == SelectSeq(ts, LAMBDA t : t.exit_reason # "SKIPPED")

\* The trades of the feed outside the maximum week.
BeforeMaxWeek ==
    SelectSeq(feed, LAMBDA t : week_start(t.signal_date) # MaxWeek(feed))

RECURSIVE SumOfReturns(_)
SumOfReturns(ts) ==
    IF ts = <<>> THEN <<0, 1>>
    ELSE Plus(Quotient(ts[1].exit_price - ts[1].entry_price, ts[1].entry_price),
              SumOfReturns(Tail(ts)))

\* C16: the first processed cohort starts from the starting capital, every
\* later one from the capital_after of the one before it, and every cohort
\* has capital_after = capital_before + pnl.
C16_CohortChaining ==
    /\ cohorts # <<>> => cohorts[1].capital_before = Rational(startingCapital)
    /\ \A p \in 1..(Len(cohorts) - 1) :
          cohorts[p + 1].capital_before = cohorts[p].capital_after
    /\ \A p \in DOMAIN cohorts :
          cohorts[p].capital_after =
              Plus(cohorts[p].capital_before, cohorts[p].pnl)

\* C16 witness: two cohorts are processed, the first with a profit or loss.
C16_Witness ==
    /\ Len(cohorts) >= 2
    /\ cohorts[1].pnl # <<0, 1>>

\* C17: the cohorts are processed by strictly ascending week_start, whatever
\* the order of the feed: when a cohort is processed every week of the feed
\* before its own has been processed, and every week still to come is later.
C17_AscendingWeeks ==
    /\ \A p, q \in DOMAIN cohorts :
          p < q => cohorts[p].week_start < cohorts[q].week_start
    /\ \A p \in DOMAIN cohorts : \A w \in Weeks(feed) :
          w < cohorts[p].week_start =>
              \E q \in 1..(p - 1) : cohorts[q].week_start = w
    /\ \A p \in DOMAIN cohorts : \A n \in DOMAIN pending :
          cohorts[p].week_start < pending[n]

\* C17 witness: two cohorts are processed from a feed that gives the later
\* week first.
C17_Witness ==
    /\ Len(cohorts) >= 2
    /\ week_start(feed[1].signal_date) > week_start(feed[2].signal_date)

\* C18: the cohort of the maximum week is no processed cohort; the processed
\* cohorts are those of the other weeks, each the same as computed from the
\* feed without the trades of the maximum week, and the final capital is the
\* capital_after of the last of them.
C18_MaxWeekExcluded ==
    feed # <<>> =>
        /\ \A p \in DOMAIN cohorts : cohorts[p].week_start # MaxWeek(feed)
        /\ \A p \in DOMAIN cohorts :
              cohorts[p] = Cohort(BeforeMaxWeek, cohorts[p].week_start,
                                  cohorts[p].capital_before)
        /\ apc = "done" =>
              /\ {cohorts[p].week_start : p \in DOMAIN cohorts} =
                     Weeks(feed) \ {MaxWeek(feed)}
              /\ capital = IF cohorts = <<>> THEN Rational(startingCapital)
                           ELSE cohorts[Len(cohorts)].capital_after

\* C18 witness: allocate is over, a cohort was processed, and the maximum
\* week has a trade with a gain or a loss.
C18_Witness ==
    /\ apc = "done"
    /\ cohorts # <<>>
    /\ NotSkipped(CohortTrades(feed, MaxWeek(feed))) # <<>>

\* C19: the trades of a processed cohort are the trades of its week that are
\* not SKIPPED; without any, pnl = 0 and capital_after = capital_before; else
\* pnl is the sum of their returns on capital_before / count each.
C19_EqualSplit ==
    \A p \in DOMAIN cohorts :
        LET c == cohorts[p]
            ts == NotSkipped(CohortTrades(feed, c.week_start))
        IN  /\ c.trades = ts
            /\ ts = <<>> =>
                  /\ c.pnl = <<0, 1>>
                  /\ c.capital_after = c.capital_before
            /\ ts # <<>> =>
                  c.pnl = Times(DividedBy(c.capital_before, Len(ts)),
                                SumOfReturns(ts))

\* C19 witness: a processed cohort with a profit or loss, the week of which
\* has a SKIPPED trade too.
C19_Witness ==
    \E p \in DOMAIN cohorts :
        /\ cohorts[p].pnl # <<0, 1>>
        /\ \E n \in DOMAIN feed :
              /\ week_start(feed[n].signal_date) = cohorts[p].week_start
              /\ feed[n].exit_reason = "SKIPPED"

\* ------------------------------------------------------------------- purity
\* The trade of a row as a function of the row and of the two tables: no
\* trade for a skipped row, else the record of the trade entered at the open
\* of the earliest bar after the signal date.
Resolve(row) ==
    IF Skipped(row) THEN <<>>
    ELSE
        LET bars == Bars(row.symbol_id)
            later == {r \in bars : r.date > row.date}
            b == CHOOSE r \in later : \A o \in later : r.date <= o.date
            x == CHOOSE x \in equity_indicators :
                     /\ x.symbol_id = row.symbol_id
                     /\ x.date = b.date
                     /\ x.atr_14 # NULL
            window == {r \in bars : r.date < b.date /\ b.date - r.date <= 10}
            swing == IF window = {} THEN b.open - x.atr_14 ELSE MinLow(window)
            stop == IF b.open - x.atr_14 < swing THEN b.open - x.atr_14
                    ELSE swing
            forward == {r \in bars : r.date >= b.date}
            hits == {r \in forward :
                        r.close <= stop \/ 100 * r.close >= 105 * b.open}
            e == IF hits = {}
                 THEN CHOOSE r \in forward : \A o \in forward : o.date <= r.date
                 ELSE CHOOSE r \in hits : \A o \in hits : r.date <= o.date
            gain == GainPct(e.close, b.open)
        IN  << [symbol         |-> row.symbol,
                buy_date       |-> b.date,
                buy_price      |-> Round2(b.open),
                atr_14         |-> Round2(x.atr_14),
                swing_low      |-> Round2(swing),
                stop_loss_used |-> Round2(stop),
                exit_date      |-> e.date,
                exit_price     |-> Round2(e.close),
                exit_reason    |-> IF hits = {} THEN "EOD"
                                   ELSE IF e.close <= stop THEN "STOP"
                                   ELSE "TARGET",
                gain_pct       |-> gain,
                win            |-> gain > 0] >>

\* The trades of the first n rows of the file, each resolved on its own.
RECURSIVE Resolved(_)
Resolved(n) == IF n = 0 THEN <<>> ELSE Resolved(n - 1) \o Resolve(df[n])

\* C20: the trade of a row is a function of the row and of the tables alone:
\* the trade about to be recorded is the resolution of its row, whatever rows
\* came before, and the list of trades is the list of the resolutions of the
\* rows processed so far, so that a row met again gives the same trade again.
C20_ResolutionIsPure ==
    /\ pc = "record" =>
          (IF exit_price = NULL THEN <<>> ELSE <<TradeRecord>>) = Resolve(df[i])
    /\ pc = "row" => trades = Resolved(i - 1)
    /\ (pc = "done" /\ logged = <<>>) => trades = Resolved(Len(df))

\* C20 witness: a run has ended with two trades, the second of which ran to
\* its last bar after a first one that exited by STOP or TARGET.
C20_Witness ==
    /\ pc = "done"
    /\ logged = <<>>
    /\ Len(trades) = 2
    /\ trades[1].exit_reason # "EOD"
    /\ trades[2].exit_reason = "EOD"

\* ------------------------------------------------------------ worked example
\* The run is that of the worked example.
IsExample == df = ExampleFile

\* The close of the entry bar of the worked example.
ExampleEntryClose ==
    (CHOOSE r \in equity_price_data : r.symbol_id = SYM /\ r.date = 13).close

\* The trade the worked example gives: stop_loss 92, target 105, exit on day
\* 15 at 106 by TARGET with gain_pct 6.0 and win.
ExampleTrade ==
    /\ buy_date = 13
    /\ buy_price = 100000
    /\ atr = 5000
    /\ swing_low = 92000
    /\ stop_loss = 92000
    /\ target = 100 * 105000
    /\ exit_price # NULL
    /\ TradeRecord.exit_date = 15
    /\ TradeRecord.exit_price = 106000
    /\ TradeRecord.exit_reason = "TARGET"
    /\ TradeRecord.gain_pct = 600
    /\ TradeRecord.win

C22_StopUnderTarget ==
    (AfterLevels /\ buy_price > 0 /\ atr >= 0) =>
        /\ stop_loss <= buy_price
        /\ 100 * buy_price < target
        /\ \A j \in DOMAIN forward_df :
              ~(/\ forward_df[j].close <= stop_loss
                /\ 100 * forward_df[j].close >= target)
        /\ (pc = "record" /\ exit_reason = "STOP") => 100 * exit_price < target

\* C22 witness: a STOP exit of a trade entered with an atr of 0.
C22_Witness ==
    /\ pc = "record"
    /\ buy_price > 0
    /\ atr = 0
    /\ exit_reason = "STOP"

\* C23: with an entry price over 0 and an atr of 0 or more, a STOP trade has
\* gain_pct <= 0 and is no win, a TARGET trade has gain_pct >= 5 and is a win.
C23_OutcomeSigns ==
    (RecordsTrade /\ buy_price > 0 /\ atr >= 0) =>
        /\ exit_reason = "STOP" =>
              TradeRecord.gain_pct <= 0 /\ ~TradeRecord.win
        /\ exit_reason = "TARGET" =>
              TradeRecord.gain_pct >= 500 /\ TradeRecord.win

\* C23 witness: a TARGET trade entered with an atr of 0 or more is about to be
\* recorded.
C23_Witness ==
    /\ RecordsTrade
    /\ buy_price > 0
    /\ atr >= 0
    /\ exit_reason = "TARGET"

\* C24: a row gives one trade at most, and one exactly when its entry bar and
\* its atr exist: the forward bars always start with the entry bar, so an
\* exit price is always there when the row is recorded, and the trades are as
\* many as the rows that passed both checks.
C24_OneTradePerPassedRow ==
    /\ AfterLevels =>
          /\ Len(forward_df) >= 1
          /\ forward_df[1].date = buy_date
    /\ pc \in {"walk", "after"} => Len(trades) = Len(Resolved(i - 1))
    /\ pc = "record" =>
          /\ exit_price # NULL
          /\ Len(trades) = Cardinality({j \in 1..(i - 1) : ~Skipped(df[j])})
    /\ pc = "row" =>
          /\ Len(trades) <= i - 1
          /\ Len(trades) = Cardinality({j \in 1..(i - 1) : ~Skipped(df[j])})

\* C24 witness: a trade whose only forward bar is its entry bar is about to be
\* recorded, with the close of that bar.
C24_Witness ==
    /\ pc = "record"
    /\ Len(forward_df) = 1
    /\ exit_reason = "EOD"
    /\ exit_price = forward_df[1].close

\* ------------------------------------------------------------- permutations
\* The orders in which the rows of a file of n rows can be given.
Permutations(n) ==
    {p \in [1..n -> 1..n] : \A a, b \in 1..n : p[a] = p[b] => a = b}

\* The trades of the file with its rows in the order p, the first n of them.
RECURSIVE ResolvedIn(_, _)
ResolvedIn(p, n) ==
    IF n = 0 THEN <<>> ELSE ResolvedIn(p, n - 1) \o Resolve(df[p[n]])

\* C25: the trade count, win_rate, avg_return, max_gain and max_loss of the
\* summary are those of the summary of the same file with its rows in any
\* other order.
C25_OrderFreeStatistics ==
    result = "frames" =>
        \A p \in Permutations(Len(df)) :
            LET other == Summary(ResolvedIn(p, Len(df)))
            IN  /\ summary.total_trades = other.total_trades
                /\ summary.win_rate = other.win_rate
                /\ summary.avg_return = other.avg_return
                /\ summary.max_gain = other.max_gain
                /\ summary.max_loss = other.max_loss

\* C25 witness: a summary of a file that, with its rows in another order,
\* has another max_drawdown.
C25_Witness ==
    /\ result = "frames"
    /\ \E p \in Permutations(Len(df)) :
          Summary(ResolvedIn(p, Len(df))).max_drawdown # summary.max_drawdown

\* ========================================================== get_base_data
\* get_base_data(lookback_days, start_date) and get_base_data_weekly.  A row
\* of equity_indicators is its symbol_id, timeframe, date and rsi_14, which
\* stands for all its indicator columns; a daily row has its bar and its
\* symbol.  A frame is the set of its rows.

\* --------------------------------------------------------------- inputs
\* Lines 22-26: the date range of the call.
end_date == 30
lookback_days == 20
start_date == end_date - lookback_days

\* No row, or one row of symbol 1 with one of the values.
OptRows(timeframe, date, values) ==
    {{}} \cup { { [symbol_id |-> 1, timeframe |-> timeframe, date |-> date,
                   rsi_14 |-> v] } : v \in values }

\* The rows of symbol 2.
OtherRows ==
    { [symbol_id |-> 2, timeframe |-> "1d",  date |-> 20, rsi_14 |-> 55],
      [symbol_id |-> 2, timeframe |-> "1wk", date |-> 18, rsi_14 |-> 45],
      [symbol_id |-> 2, timeframe |-> "1mo", date |-> 15, rsi_14 |-> 75] }

\* Daily rows on days 12 and 20; weekly rows on days 5 (before the range),
\* 11, 18 and 25; monthly rows on days 1 (before the range), 15 and 28.
BaseTables ==
    { d12 \cup d20 \cup w5 \cup w11 \cup w18 \cup w25 \cup m1 \cup m15
          \cup m28 \cup other :
      d12 \in OptRows("1d", 12, {50}), d20 \in OptRows("1d", 20, {50}),
      w5 \in OptRows("1wk", 5, {40}),
      w11 \in OptRows("1wk", 11, {NULL, 40, 60}),
      w18 \in OptRows("1wk", 18, {NULL, 40, 60}),
      w25 \in OptRows("1wk", 25, {40}),
      m1 \in OptRows("1mo", 1, {70}),
      m15 \in OptRows("1mo", 15, {NULL, 70}),
      m28 \in OptRows("1mo", 28, {70}),
      other \in {{}, OtherRows} }

\* ------------------------------------------------------------ operators
\* The rows of a timeframe dated in the range (BETWEEN start and end).
InRange(timeframe) ==
    {r \in indicator_rows :
        /\ r.timeframe = timeframe
        /\ start_date <= r.date /\ r.date <= end_date}

\* Lines 33-52: daily_sql.
DailySql ==
    { [symbol_id |-> r.symbol_id, date |-> r.date, rsi_14 |-> r.rsi_14] :
      r \in InRange("1d") }

\* Lines 78-93: weekly_sql.
WeeklySql ==
    { [symbol_id |-> r.symbol_id, weekly_date |-> r.date,
       rsi_14_weekly |-> r.rsi_14] : r \in InRange("1wk") }

\* Lines 107-122: monthly_sql.
MonthlySql ==
    { [symbol_id |-> r.symbol_id, monthly_date |-> r.date,
       rsi_14_monthly |-> r.rsi_14] : r \in InRange("1mo") }

\* A row of the left frame with the columns of a row of the right one.
Joined(left_row, right_row) ==
    [c \in (DOMAIN left_row) \cup (DOMAIN right_row) |->
        IF c \in DOMAIN left_row THEN left_row[c] ELSE right_row[c]]

\* merge(right, on='symbol_id', how='left'): a row for every pair of the same
\* symbol, and a row with nulls for a left row without any.
MergeLeft(left, right, right_columns) ==
    { Joined(p[1], p[2]) :
      p \in {q \in left \X right : q[1].symbol_id = q[2].symbol_id} }
    \cup
    { Joined(l, [c \in right_columns |-> NULL]) :
      l \in {m \in left : \A r \in right : r.symbol_id # m.symbol_id} }

\* Lines 96, 125: the rows dated by the column on or before their date; a
\* null date compares false.
NotAfter(frame, by) ==
    {r \in frame : r[by] # NULL /\ r[by] <= r.date}

\* last() of a column in a group sorted by the column by: the last value
\* that is not null, null if there is none.
LastNotNull(group, column, by) ==
    LET filled == {r \in group : r[column] # NULL}
    IN  IF filled = {} THEN NULL
        ELSE (CHOOSE r \in filled : \A o \in filled : o[by] <= r[by])[column]

\* Lines 97-102, 126-131: sort_values, groupby(['symbol_id','date']).last().
GroupLast(frame, by) ==
    { LET group == {r \in frame : r.symbol_id = key[1] /\ r.date = key[2]}
      IN  [c \in DOMAIN (CHOOSE r \in group : TRUE) |->
              LastNotNull(group, c, by)] :
      key \in {<<r.symbol_id, r.date>> : r \in frame} }

\* --------------------------------------------------------- initial state
InitBase ==
    /\ RunIdle /\ AllocIdle /\ SmaIdle /\ KlineIdle
    /\ indicator_rows \in BaseTables
    /\ bfn \in {"get_base_data", "get_base_data_weekly"}
    /\ bpc = "start"
    /\ bconn = "none"
    /\ bcloses = 0
    /\ df_daily = {}
    /\ df_weekly = {}
    /\ bresult = "running"

\* --------------------------------------------------------------- actions
\* return inside try, then finally (lines 142-143, 254-255).
ReturnAndClose(how) ==
    /\ bresult' = how
    /\ bconn' = "closed"
    /\ bcloses' = bcloses + 1
    /\ bpc' = "done"

\* Line 15: get_db_connection raises; the call is outside the try.
BaseOpenFails ==
    /\ bfn = "get_base_data" /\ bpc = "start"
    /\ bresult' = "raised"
    /\ bpc' = "done"
    /\ UNCHANGED <<run, alloc, sma, kline, indicator_rows, bfn, bconn,
                   bcloses, df_daily, df_weekly>>

\* Lines 15-16.
BaseOpen ==
    /\ bfn = "get_base_data" /\ bpc = "start"
    /\ bconn' = "open"
    /\ df_daily' = {}
    /\ bpc' = "daily"
    /\ UNCHANGED <<run, alloc, sma, kline, indicator_rows, bfn, bcloses,
                   df_weekly, bresult>>

\* Mutant of BaseDailyEmpty: the early return leaves the connection open.
BaseDailyEmptyLeavesOpen ==
    /\ bfn = "get_base_data" /\ bpc = "daily"
    /\ DailySql = {}
    /\ df_daily' = DailySql
    /\ bresult' = "returned"
    /\ bpc' = "done"
    /\ UNCHANGED <<run, alloc, sma, kline, indicator_rows, bfn, bconn,
                   bcloses, df_weekly>>

\* Lines 52-56: no daily row, the empty frame is returned.
BaseDailyEmpty ==
    /\ bfn = "get_base_data" /\ bpc = "daily"
    /\ DailySql = {}
    /\ df_daily' = DailySql
    /\ ReturnAndClose("returned")
    /\ UNCHANGED <<run, alloc, sma, kline, indicator_rows, bfn, df_weekly>>

\* Lines 52-73: the daily rows.
BaseDaily ==
    /\ bfn = "get_base_data" /\ bpc = "daily"
    /\ DailySql # {}
    /\ df_daily' = DailySql
    /\ bpc' = "weekly_merge"
    /\ UNCHANGED <<run, alloc, sma, kline, indicator_rows, bfn, bconn,
                   bcloses, df_weekly, bresult>>

\* Lines 92-95.
BaseWeeklyMerge ==
    /\ bfn = "get_base_data" /\ bpc = "weekly_merge"
    /\ df_daily' = MergeLeft(df_daily, WeeklySql,
                             {"symbol_id", "weekly_date", "rsi_14_weekly"})
    /\ bpc' = "weekly_filter"
    /\ UNCHANGED <<run, alloc, sma, kline, indicator_rows, bfn, bconn,
                   bcloses, df_weekly, bresult>>

\* Line 96.
BaseWeeklyFilter ==
    /\ bfn = "get_base_data" /\ bpc = "weekly_filter"
    /\ df_daily' = NotAfter(df_daily, "weekly_date")
    /\ bpc' = "weekly_group"
    /\ UNCHANGED <<run, alloc, sma, kline, indicator_rows, bfn, bconn,
                   bcloses, df_weekly, bresult>>

\* Lines 97-102.
BaseWeeklyGroup ==
    /\ bfn = "get_base_data" /\ bpc = "weekly_group"
    /\ df_daily' = GroupLast(df_daily, "weekly_date")
    /\ bpc' = "monthly_merge"
    /\ UNCHANGED <<run, alloc, sma, kline, indicator_rows, bfn, bconn,
                   bcloses, df_weekly, bresult>>

\* Lines 121-124.
BaseMonthlyMerge ==
    /\ bfn = "get_base_data" /\ bpc = "monthly_merge"
    /\ df_daily' = MergeLeft(df_daily, MonthlySql,
                             {"symbol_id", "monthly_date", "rsi_14_monthly"})
    /\ bpc' = "monthly_filter"
    /\ UNCHANGED <<run, alloc, sma, kline, indicator_rows, bfn, bconn,
                   bcloses, df_weekly, bresult>>

\* Line 125.
BaseMonthlyFilter ==
    /\ bfn = "get_base_data" /\ bpc = "monthly_filter"
    /\ df_daily' = NotAfter(df_daily, "monthly_date")
    /\ bpc' = "monthly_group"
    /\ UNCHANGED <<run, alloc, sma, kline, indicator_rows, bfn, bconn,
                   bcloses, df_weekly, bresult>>

\* Lines 126-135: the last grouping, and the return of the frame.
BaseMonthlyGroup ==
    /\ bfn = "get_base_data" /\ bpc = "monthly_group"
    /\ df_daily' = GroupLast(df_daily, "monthly_date")
    /\ ReturnAndClose("returned")
    /\ UNCHANGED <<run, alloc, sma, kline, indicator_rows, bfn, df_weekly>>

\* Lines 137-143: a statement of the try raises; the frame as it is then is
\* returned.
BaseFails ==
    /\ bfn = "get_base_data"
    /\ bpc \in {"daily", "weekly_merge", "weekly_filter", "weekly_group",
                "monthly_merge", "monthly_filter", "monthly_group"}
    /\ ReturnAndClose("returned_after_error")
    /\ UNCHANGED <<run, alloc, sma, kline, indicator_rows, bfn, df_daily,
                   df_weekly>>

\* Line 148: get_db_connection raises; the call is outside the try.
GetWeeklyOpenFails ==
    /\ bfn = "get_base_data_weekly" /\ bpc = "start"
    /\ bresult' = "raised"
    /\ bpc' = "done"
    /\ UNCHANGED <<run, alloc, sma, kline, indicator_rows, bfn, bconn,
                   bcloses, df_daily, df_weekly>>

\* Lines 148-149.
GetWeeklyOpen ==
    /\ bfn = "get_base_data_weekly" /\ bpc = "start"
    /\ bconn' = "open"
    /\ df_weekly' = {}
    /\ bpc' = "weekly_sql"
    /\ UNCHANGED <<run, alloc, sma, kline, indicator_rows, bfn, bcloses,
                   df_daily, bresult>>

\* Lines 155-247: the rows of the weekly query are some of the weekly rows,
\* those that pass its WHERE.
GetWeeklyQuery ==
    /\ bfn = "get_base_data_weekly" /\ bpc = "weekly_sql"
    /\ df_weekly' \in SUBSET {r \in indicator_rows : r.timeframe = "1wk"}
    /\ ReturnAndClose("returned")
    /\ UNCHANGED <<run, alloc, sma, kline, indicator_rows, bfn, df_daily>>

\* Lines 249-255: the query raises; the empty frame is returned.
GetWeeklyFails ==
    /\ bfn = "get_base_data_weekly" /\ bpc = "weekly_sql"
    /\ ReturnAndClose("returned_after_error")
    /\ UNCHANGED <<run, alloc, sma, kline, indicator_rows, bfn, df_daily,
                   df_weekly>>

NextBase ==
    \/ BaseOpenFails
    \/ BaseOpen
    \/ BaseDailyEmpty
    \/ BaseDaily
    \/ BaseWeeklyMerge
    \/ BaseWeeklyFilter
    \/ BaseWeeklyGroup
    \/ BaseMonthlyMerge
    \/ BaseMonthlyFilter
    \/ BaseMonthlyGroup
    \/ BaseFails
    \/ GetWeeklyOpenFails
    \/ GetWeeklyOpen
    \/ GetWeeklyQuery
    \/ GetWeeklyFails

SpecBase == InitBase /\ [][NextBase]_vars

\* ------------------------------------------------------ get_base_data claims
\* get_base_data has returned the frame of its last line.
BaseReturned ==
    bfn = "get_base_data" /\ bpc = "done" /\ bresult = "returned"

\* The rows of a timeframe of a symbol dated on or before a date.
RowsUpTo(timeframe, symbol_id, date) ==
    {r \in indicator_rows :
        r.timeframe = timeframe /\ r.symbol_id = symbol_id /\ r.date <= date}

\* The latest of a non-empty set of rows.
LatestRow(rows) == CHOOSE r \in rows : \A o \in rows : o.date <= r.date

\* C26 as stated: a returned row has weekly_date <= date and monthly_date <=
\* date, there is one row at most for a symbol and a date, its weekly and its
\* monthly values are those of the latest weekly and of the latest monthly
\* row dated on or before its date, and a daily row without such a weekly or
\* without such a monthly row is not returned.
C26_LatestRowValues ==
    (BaseReturned /\ DailySql # {}) =>
        /\ \A r \in df_daily :
              /\ r.weekly_date <= r.date
              /\ r.monthly_date <= r.date
              /\ \A o \in df_daily :
                    (o.symbol_id = r.symbol_id /\ o.date = r.date) => o = r
              /\ LET weekly == RowsUpTo("1wk", r.symbol_id, r.date)
                     monthly == RowsUpTo("1mo", r.symbol_id, r.date)
                 IN  /\ weekly # {} /\ monthly # {}
                     /\ r.weekly_date = LatestRow(weekly).date
                     /\ r.rsi_14_weekly = LatestRow(weekly).rsi_14
                     /\ r.monthly_date = LatestRow(monthly).date
                     /\ r.rsi_14_monthly = LatestRow(monthly).rsi_14
        /\ \A d \in DailySql :
              (\/ RowsUpTo("1wk", d.symbol_id, d.date) = {}
               \/ RowsUpTo("1mo", d.symbol_id, d.date) = {}) =>
                  ~\E r \in df_daily :
                      r.symbol_id = d.symbol_id /\ r.date = d.date

\* C27: a call that opened a connection ends with that connection closed by
\* one call of close_db_connection, on the early return, on the return of the
\* last line and after an exception, and it returns its frame instead of
\* raising; the frame returned after an exception is the frame as the
\* exception found it.  A call only raises when the connection did not open.
C27_ClosedOnceOnEveryPath ==
    /\ [](/\ bcloses <= 1
          /\ bconn = "open" => (bcloses = 0 /\ bpc # "done")
          /\ bconn = "closed" => (bcloses = 1 /\ bpc = "done")
          /\ (bpc = "done" /\ bresult # "raised") =>
                /\ bconn = "closed"
                /\ bcloses = 1
                /\ bresult \in {"returned", "returned_after_error"}
          /\ bresult = "raised" => (bconn = "none" /\ bcloses = 0))
    /\ [][bresult' = "returned_after_error" =>
              (df_daily' = df_daily /\ df_weekly' = df_weekly)]_vars

\* C27 witness: get_base_data has returned, after an exception, the frame
\* it had merged with the weekly rows, and its connection is closed.
C27_Witness ==
    /\ bfn = "get_base_data"
    /\ bpc = "done"
    /\ bresult = "returned_after_error"
    /\ \E r \in df_daily : "weekly_date" \in DOMAIN r
    /\ bconn = "closed"
    /\ bcloses = 1

\* ===================================================== sma_support_report.py
\* generate_sma_support_report (lines 61-114) and fetch_price_data (44-56).
MaxSymbols == 2

\* timeframes of line 76, in the order of the dict.
timeframes == <<"1d", "1wk", "1mo">>

\* What pd.read_sql of fetch_price_data gives: no row, rows, an exception.
Reads == {"empty", "rows", "raises"}

\* The connections open at the moment.
OpenConnections ==
    (IF gconn = "open" THEN 1 ELSE 0) + (IF fconn = "open" THEN 1 ELSE 0)

InitSma ==
    /\ RunIdle /\ AllocIdle /\ BaseIdle /\ KlineIdle
    /\ \E n \in 0..MaxSymbols :
          /\ symbols_df = [x \in 1..n |-> x]
          /\ price_data \in [1..n -> [1..Len(timeframes) -> Reads]]
    /\ gpc = "start"
    /\ gconn = "unbound"
    /\ fconn = "none"
    /\ sym_ix = 0
    /\ tf_ix = 0
    /\ report_rows = <<>>
    /\ glogged = <<>>
    /\ gresult = "running"

\* except Exception as e: log(f"ERROR: {e}") (lines 110-111), then finally.
Except ==
    /\ glogged' = Append(glogged, "ERROR")
    /\ gpc' = "finally"

\* The next timeframe, or the first timeframe of the next symbol (79, 84).
NextTimeframe ==
    IF tf_ix < Len(timeframes)
    THEN /\ tf_ix' = tf_ix + 1
         /\ UNCHANGED sym_ix
    ELSE /\ tf_ix' = 1
         /\ sym_ix' = sym_ix + 1

\* Line 63: get_db_connection raises; conn is never bound.
ReportOpenFails ==
    /\ gpc = "start"
    /\ Except
    /\ UNCHANGED <<run, alloc, base, kline, symbols_df, price_data, gconn,
                   fconn, sym_ix, tf_ix, report_rows, gresult>>

\* Lines 63-66.
ReportOpen ==
    /\ gpc = "start"
    /\ gconn' = "open"
    /\ glogged' = Append(glogged, "Starting")
    /\ gpc' = "symbols"
    /\ UNCHANGED <<run, alloc, base, kline, symbols_df, price_data, fconn,
                   sym_ix, tf_ix, report_rows, gresult>>

\* Line 69 raises.
RetrieveFails ==
    /\ gpc = "symbols"
    /\ Except
    /\ UNCHANGED <<run, alloc, base, kline, symbols_df, price_data, gconn,
                   fconn, sym_ix, tf_ix, report_rows, gresult>>

\* Lines 69-72: no symbol, return.
NoSymbols ==
    /\ gpc = "symbols"
    /\ symbols_df = <<>>
    /\ glogged' = Append(glogged, "No symbols")
    /\ gpc' = "finally"
    /\ UNCHANGED <<run, alloc, base, kline, symbols_df, price_data, gconn,
                   fconn, sym_ix, tf_ix, report_rows, gresult>>

\* Lines 69-76.
Retrieve ==
    /\ gpc = "symbols"
    /\ symbols_df # <<>>
    /\ sym_ix' = 1
    /\ tf_ix' = 1
    /\ gpc' = "loop"
    /\ UNCHANGED <<run, alloc, base, kline, symbols_df, price_data, gconn,
                   fconn, report_rows, glogged, gresult>>

\* Line 85 calls fetch_price_data, whose line 45 raises.
FetchOpenFails ==
    /\ gpc = "loop"
    /\ sym_ix <= Len(symbols_df)
    /\ Except
    /\ UNCHANGED <<run, alloc, base, kline, symbols_df, price_data, gconn,
                   fconn, sym_ix, tf_ix, report_rows, gresult>>

\* Line 85 calls fetch_price_data: line 45.
FetchOpen ==
    /\ gpc = "loop"
    /\ sym_ix <= Len(symbols_df)
    /\ fconn' = "open"
    /\ gpc' = "read"
    /\ UNCHANGED <<run, alloc, base, kline, symbols_df, price_data, gconn,
                   sym_ix, tf_ix, report_rows, glogged, gresult>>

\* Lines 47-54: the query returns or raises, the finally is next.
FetchRead ==
    /\ gpc = "read"
    /\ gpc' = "fetch_finally"
    /\ UNCHANGED <<run, alloc, base, kline, symbols_df, price_data, gconn,
                   fconn, sym_ix, tf_ix, report_rows, glogged, gresult>>

\* Lines 55-56 with an exception in flight: it reaches line 110.
FetchFails ==
    /\ gpc = "fetch_finally"
    /\ price_data[sym_ix][tf_ix] = "raises"
    /\ fconn' = "closed"
    /\ Except
    /\ UNCHANGED <<run, alloc, base, kline, symbols_df, price_data, gconn,
                   sym_ix, tf_ix, report_rows, gresult>>

\* Lines 55-56, then 86-88: an empty frame is logged and skipped.
FetchEmpty ==
    /\ gpc = "fetch_finally"
    /\ price_data[sym_ix][tf_ix] = "empty"
    /\ fconn' = "closed"
    /\ glogged' = Append(glogged, "No price data")
    /\ NextTimeframe
    /\ gpc' = "loop"
    /\ UNCHANGED <<run, alloc, base, kline, symbols_df, price_data, gconn,
                   report_rows, gresult>>

\* Lines 55-56, then 90-99: one row of the report.
FetchRows ==
    /\ gpc = "fetch_finally"
    /\ price_data[sym_ix][tf_ix] = "rows"
    /\ fconn' = "closed"
    /\ report_rows' = Append(report_rows, <<symbols_df[sym_ix],
                                            timeframes[tf_ix]>>)
    /\ NextTimeframe
    /\ gpc' = "loop"
    /\ UNCHANGED <<run, alloc, base, kline, symbols_df, price_data, gconn,
                   glogged, gresult>>

\* Lines 101-109.
SaveReport ==
    /\ gpc = "loop"
    /\ sym_ix > Len(symbols_df)
    /\ glogged' = Append(glogged, "saved")
    /\ gpc' = "finally"
    /\ UNCHANGED <<run, alloc, base, kline, symbols_df, price_data, gconn,
                   fconn, sym_ix, tf_ix, report_rows, gresult>>

\* Line 106 raises.
SaveFails ==
    /\ gpc = "loop"
    /\ sym_ix > Len(symbols_df)
    /\ Except
    /\ UNCHANGED <<run, alloc, base, kline, symbols_df, price_data, gconn,
                   fconn, sym_ix, tf_ix, report_rows, gresult>>

\* Lines 113-114 with conn bound.
FinallyClose ==
    /\ gpc = "finally"
    /\ gconn = "open"
    /\ gconn' = "closed"
    /\ gresult' = "returned"
    /\ gpc' = "done"
    /\ UNCHANGED <<run, alloc, base, kline, symbols_df, price_data, fconn,
                   sym_ix, tf_ix, report_rows, glogged>>

\* Lines 113-114 with conn unbound: evaluating the argument of
\* close_db_connection raises UnboundLocalError out of the function.
FinallyUnbound ==
    /\ gpc = "finally"
    /\ gconn = "unbound"
    /\ gresult' = "raised"
    /\ gpc' = "done"
    /\ UNCHANGED <<run, alloc, base, kline, symbols_df, price_data, gconn,
                   fconn, sym_ix, tf_ix, report_rows, glogged>>

NextSma ==
    \/ ReportOpenFails
    \/ ReportOpen
    \/ RetrieveFails
    \/ NoSymbols
    \/ Retrieve
    \/ FetchOpenFails
    \/ FetchOpen
    \/ FetchRead
    \/ FetchFails
    \/ FetchEmpty
    \/ FetchRows
    \/ SaveReport
    \/ SaveFails
    \/ FinallyClose
    \/ FinallyUnbound

SpecSma == InitSma /\ [][NextSma]_vars

\* -------------------------------------------- generate_sma_support_report claims
\* C28 as stated: generate_sma_support_report never raises, its final close
\* is applied to an open connection on every exit path, the failure to open
\* its own connection included, fetch_price_data's connection is closed
\* before the next one opens, two connections at most are open at a time
\* and none is open once the function is over.
C28_ClosesWhatItOpened ==
    /\ gresult # "raised"
    /\ gpc = "finally" => gconn = "open"
    /\ gpc = "loop" => fconn # "open"
    /\ fconn = "open" => gconn = "open"
    /\ OpenConnections <= 2
    /\ gpc = "done" => (gconn = "closed" /\ OpenConnections = 0)

\* ============================================ data_service.py, get_candle_type
\* Prices are integers; a comparison with a product by 0.1, 0.3 or 0.05 is
\* the comparison of the integers multiplied by 10 or 20.
MaxPrice == 24
Prices == 0..MaxPrice

Max(a, b) == IF a >= b THEN a ELSE b

\* The rows run_scanner hands over: low <= open, close <= high.
Candles ==
    {c \in [open : Prices, high : Prices, low : Prices, close : Prices] :
        c.low <= Min(c.open, c.close) /\ Max(c.open, c.close) <= c.high}

\* Line 304: body < 0.1 * (high - low), which never holds in the variant.
NeverSmallBody(body, range) == FALSE
SmallBody(body, range) == 10 * body < range

\* Line 307.
HammerShape(body, range, upper_shadow, lower_shadow) ==
    /\ 10 * body <= 3 * range
    /\ lower_shadow >= 2 * body
    /\ 10 * upper_shadow <= 3 * body

\* Line 310.
InvertedShape(body, range, upper_shadow, lower_shadow) ==
    /\ 10 * body <= 3 * range
    /\ upper_shadow >= 2 * body
    /\ 10 * lower_shadow <= 3 * body

\* Line 313.
MarubozuShape(body, upper_shadow, lower_shadow) ==
    /\ 20 * upper_shadow < body
    /\ 20 * lower_shadow < body

\* Lines 289-316.
get_candle_type(open, high, low, close) ==
    LET body == Abs(close - open)
        upper_shadow == high - Max(open, close)
        lower_shadow == Min(open, close) - low
        color == IF close > open THEN "Bullish" ELSE "Bearish"
    IN  IF high = low THEN "Doji"
        ELSE IF close = open THEN "Doji"
        ELSE IF SmallBody(body, high - low) THEN "Doji"
        ELSE IF HammerShape(body, high - low, upper_shadow, lower_shadow)
             THEN IF color = "Bullish" THEN "Hammer" ELSE "Hanging Man"
        ELSE IF InvertedShape(body, high - low, upper_shadow, lower_shadow)
             THEN IF color = "Bullish" THEN "Inverted Hammer"
                  ELSE "Shooting Star"
        ELSE IF MarubozuShape(body, upper_shadow, lower_shadow)
             THEN IF color = "Bullish" THEN "Bullish Marubozu"
                  ELSE "Bearish Marubozu"
        ELSE color

InitCandle ==
    /\ RunIdle /\ AllocIdle /\ BaseIdle /\ SmaIdle
    /\ candle \in Candles
    /\ candle_type = "NONE"

\* scanner_play.py lines 74-82: the label of one row.
ApplyCandleType ==
    /\ candle_type = "NONE"
    /\ candle_type' = get_candle_type(candle.open, candle.high, candle.low,
                                      candle.close)
    /\ UNCHANGED <<run, alloc, base, sma, candle>>

NextCandle == ApplyCandleType

SpecCandle == InitCandle /\ [][NextCandle]_vars

\* ----------------------------------------------------- get_candle_type claims
CandleLabels ==
    {"Doji", "Hammer", "Hanging Man", "Inverted Hammer", "Shooting Star",
     "Bullish Marubozu", "Bearish Marubozu", "Bullish", "Bearish"}

BullishFamily == {"Hammer", "Inverted Hammer", "Bullish Marubozu", "Bullish"}
BearishFamily == {"Hanging Man", "Shooting Star", "Bearish Marubozu",
                  "Bearish"}

CandleBody == Abs(candle.close - candle.open)
CandleRange == candle.high - candle.low
UpperShadow == candle.high - Max(candle.open, candle.close)
LowerShadow == Min(candle.open, candle.close) - candle.low

\* The three shape tests of the candle in hand, by name.
ShapeHolds(shape) ==
    CASE shape = "hammer" ->
            HammerShape(CandleBody, CandleRange, UpperShadow, LowerShadow)
      [] shape = "inverted" ->
            InvertedShape(CandleBody, CandleRange, UpperShadow, LowerShadow)
      [] shape = "marubozu" ->
            MarubozuShape(CandleBody, UpperShadow, LowerShadow)

ShapeLabel(shape) ==
    LET bullish == candle.close > candle.open
    IN  CASE shape = "hammer" ->
                IF bullish THEN "Hammer" ELSE "Hanging Man"
          [] shape = "inverted" ->
                IF bullish THEN "Inverted Hammer" ELSE "Shooting Star"
          [] shape = "marubozu" ->
                IF bullish THEN "Bullish Marubozu" ELSE "Bearish Marubozu"

Shapes == {"hammer", "inverted", "marubozu"}

\* The label of a candle that is no Doji when the shapes are tested in the
\* order given.
LabelInOrder(order) ==
    IF ShapeHolds(order[1]) THEN ShapeLabel(order[1])
    ELSE IF ShapeHolds(order[2]) THEN ShapeLabel(order[2])
    ELSE IF ShapeHolds(order[3]) THEN ShapeLabel(order[3])
    ELSE IF candle.close > candle.open THEN "Bullish" ELSE "Bearish"

ShapeOrders ==
    {o \in [1..3 -> Shapes] : \A a, b \in 1..3 : a # b => o[a] # o[b]}

\* C29: for a candle with low <= min(open, close) and max(open, close) <=
\* high the label is one of the nine; it is Doji whenever high = low, close =
\* open or the body is under a tenth of the range; a Bullish-family label
\* needs close > open and a Bearish-family label close < open; and of the
\* Hammer, Inverted-Hammer and Marubozu tests at most one holds where they
\* are reached, so the label is the same in every order of the three tests.
C29_TotalClassification ==
    candle_type # "NONE" =>
        /\ candle_type \in CandleLabels
        /\ (\/ candle.high = candle.low
            \/ candle.close = candle.open
            \/ 10 * CandleBody < CandleRange) => candle_type = "Doji"
        /\ candle_type \in BullishFamily => candle.close > candle.open
        /\ candle_type \in BearishFamily => candle.close < candle.open
        /\ candle_type # "Doji" =>
              /\ \A a, b \in Shapes :
                    (a # b) => ~(ShapeHolds(a) /\ ShapeHolds(b))
              /\ \A o \in ShapeOrders : candle_type = LabelInOrder(o)

\* C29 witness: a candle whose body is three tenths of its range, with a
\* lower shadow of twice the body and some upper shadow, is labelled Hammer.
C29_Witness ==
    /\ candle_type = "Hammer"
    /\ UpperShadow > 0
    /\ LowerShadow >= 2 * CandleBody
    /\ 10 * CandleBody = 3 * CandleRange

=============================================================================
